---- MODULE Spec2Model ----
(***************************************************************************)
(* A model of the danmaku crawler: BilibiliCrawler.crawl and the per-video *)
(* units it runs under a semaphore (crawler.py), the models it builds      *)
(* (models.py) and the bundle store it reads and writes (persistence.py).  *)
(*                                                                         *)
(* Optional values (Python's None) are sequences of length 0 or 1.         *)
(* Floats are integers counting tenths; timestamps are kept small.         *)
(***************************************************************************)
EXTENDS Integers, Sequences, FiniteSets, TLC

None == <<>>
Some(x) == <<x>>
IsNone(o) == Len(o) = 0
Val(o) == o[1]

Max(a, b) == IF a >= b THEN a ELSE b

(***************************************************************************)
(* Bounds of the model.                                                    *)
(***************************************************************************)
MaxVideos == 6
MaxConcurrency == 2
MaxRetry == 2
MaxPagesPerKeyword == 1
MaxRuns == 2
MaxTopN == 2

SecondsPerDay == 86400

(***************************************************************************)
(* config.py: CrawlerConfig.  pages_per_keyword None is None; the other    *)
(* knobs are integers and a flag.                                          *)
(***************************************************************************)
Keywords == <<"k1", "k2">>

Configs ==
    [ max_videos : 1..MaxVideos,
      pages_per_keyword : {None} \cup {Some(p) : p \in 1..MaxPagesPerKeyword},
      concurrent_requests : 0..MaxConcurrency,
      retry_attempts : 1..MaxRetry,
      enable_cache : BOOLEAN ]

(***************************************************************************)
(* The upstream platform.  The search endpoint serves, per keyword, a      *)
(* fixed list of pages; an item is its bvid, "" when the item has none.    *)
(***************************************************************************)
Bvids == {"b1", "b2", "b3"}

SearchIndex ==
    [ k1 |-> << <<"b1", "">> >>,
      k2 |-> << <<"b2">>, <<"b1">>, <<"b3">> >> ]

SearchPage(keyword, page) ==
    IF page <= Len(SearchIndex[keyword]) THEN SearchIndex[keyword][page] ELSE <<>>

(* The "data" object of the video-info response for a bvid. *)
ViewData(bvid) ==
    CASE bvid = "b1" ->
           [ aid |-> Some(1), bvid |-> Some(bvid), cid |-> Some(11),
             title |-> Some("t1"), duration |-> Some(95),
             pubdate |-> Some(SecondsPerDay + 3600),
             stat |-> Some([view |-> Some(100), danmaku |-> Some(7), like |-> Some(3)]),
             owner |-> Some([name |-> Some("up1")]) ]
      [] bvid = "b2" ->
           [ aid |-> Some(2), bvid |-> Some(bvid), cid |-> Some(12),
             title |-> None, duration |-> Some(0),
             pubdate |-> None, stat |-> None, owner |-> None ]
      [] OTHER ->
           [ aid |-> Some(3), bvid |-> Some(bvid), cid |-> Some(13),
             title |-> Some("t3"), duration |-> None,
             pubdate |-> Some(0),
             stat |-> Some([view |-> None, danmaku |-> None, like |-> Some(0)]),
             owner |-> Some([name |-> None]) ]

(* The JSON bodies the video-info endpoint may answer with. *)
ViewPayloads(bvid) ==
    { [data |-> Some(ViewData(bvid))],
      [data |-> None],
      [data |-> Some([ViewData(bvid) EXCEPT !.cid = None])],
      [data |-> Some([ViewData(bvid) EXCEPT !.aid = None])] }

(* One field of a "p" attribute: its text, and what int() and float() make *)
(* of it (None: ValueError).                                               *)
Field(s, i, f) == [s |-> s, i |-> i, f |-> f]

GoodP ==
    << Field("12.5", None, Some(125)), Field("1", Some(1), Some(10)),
       Field("25", Some(25), Some(250)), Field("16777215", Some(16777215), Some(167772150)),
       Field("90000", Some(90000), Some(900000)), Field("abcd1234", None, None),
       Field("0", Some(0), Some(0)), Field("5", Some(5), Some(50)) >>

AnonP ==
    << Field("0", Some(0), Some(0)), Field("4", Some(4), Some(40)),
       Field("18", Some(18), Some(180)), Field("255", Some(255), Some(2550)),
       Field("7.5", None, Some(75)), Field("", None, None),
       Field("x", None, None) >>

ShortP == SubSeq(GoodP, 1, 6)

XmlNode(p, text) == [p |-> p, text |-> text]

(* The bodies the comment-list endpoint may answer with: an XML document   *)
(* with its <d> nodes, or text that is no XML.                             *)
DmPayloads ==
    { [xml |-> TRUE, nodes |-> <<>>],
      [xml |-> TRUE, nodes |-> <<XmlNode(Some(GoodP), Some("hello")), XmlNode(Some(AnonP), None)>>],
      [xml |-> TRUE, nodes |-> <<XmlNode(Some(GoodP), Some("hello")), XmlNode(Some(ShortP), Some("cut"))>>],
      [xml |-> FALSE, nodes |-> <<>>] }

(***************************************************************************)
(* models.py                                                               *)
(***************************************************************************)
(* datetime.fromtimestamp(seconds, tz=utc), seconds in tenths. *)
_parse_timestamp(tenths) ==
    [ date |-> (tenths \div 10) \div SecondsPerDay,
      time |-> (tenths \div 10) % SecondsPerDay,
      frac |-> tenths % 10,
      tz |-> "UTC" ]

(* datetime.isoformat: the text "<date>T<time>[.<frac>]+00:00". *)
isoformat(dt) ==
    IF dt.frac = 0 THEN <<dt.date, "T", dt.time, "+00:00">>
    ELSE <<dt.date, "T", dt.time, ".", dt.frac, "+00:00">>

(* The fraction of a second is dropped. *)
fromisoformat_whole_seconds(s) ==
    [ date |-> s[1], time |-> s[3], frac |-> 0,
      tz |-> IF s[Len(s)] = "+00:00" THEN "UTC" ELSE "naive" ]

(* The UTC offset is not read back. *)
fromisoformat_naive(s) ==
    [ date |-> s[1],
      time |-> s[3],
      frac |-> IF Len(s) = 6 THEN s[5] ELSE 0,
      tz |-> "naive" ]

(* datetime.fromisoformat *)
fromisoformat(s) ==
    [ date |-> s[1],
      time |-> s[3],
      frac |-> IF Len(s) = 6 THEN s[5] ELSE 0,
      tz |-> IF s[Len(s)] = "+00:00" THEN "UTC" ELSE "naive" ]

_safe_int(field) == field.i

Ok(v) == [ok |-> TRUE, exc |-> "", value |-> Some(v)]
Raise(e) == [ok |-> FALSE, exc |-> e, value |-> None]

(* VideoMetadata.from_view_api *)
from_view_api(payload, keyword, cid, ranking_index) ==
    LET stat == IF IsNone(payload.stat)
                THEN [view |-> None, danmaku |-> None, like |-> None]
                ELSE Val(payload.stat)
        owner == IF IsNone(payload.owner) THEN [name |-> None] ELSE Val(payload.owner)
        pubdate == payload.pubdate
        publish_time == IF ~IsNone(pubdate) /\ Val(pubdate) # 0
                        THEN Some(_parse_timestamp(10 * Val(pubdate)))
                        ELSE None
        dur == IF IsNone(payload.duration) THEN 0 ELSE Val(payload.duration)
    IN  IF IsNone(payload.aid) \/ IsNone(payload.bvid)
        THEN Raise("KeyError")
        ELSE Ok([ aid |-> Val(payload.aid),
                  bvid |-> Val(payload.bvid),
                  cid |-> cid,
                  title |-> IF IsNone(payload.title) THEN "" ELSE Val(payload.title),
                  keyword |-> keyword,
                  duration |-> IF dur = 0 THEN None ELSE Some(dur),
                  publish_time |-> publish_time,
                  owner_name |-> owner.name,
                  view_count |-> stat.view,
                  danmaku_count |-> stat.danmaku,
                  like_count |-> stat.like,
                  ranking_index |-> ranking_index ])

(* (node.attrib.get("p") or "").split(",") *)
SplitP(node) ==
    IF IsNone(node.p) THEN <<Field("", None, None)>> ELSE Val(node.p)

(* The length of the payload is not checked: a record is made of what is *)
(* there. *)
from_xml_node_partial(node, bvid, cid) ==
    Ok([ video_bvid |-> bvid,
         video_cid |-> cid,
         content |-> IF IsNone(node.text) THEN "" ELSE Val(node.text),
         fields |-> Len(SplitP(node)) ])

(* DanmakuRecord.from_xml_node *)
from_xml_node(node, bvid, cid) ==
    LET attrs == SplitP(node)
    IN  IF Len(attrs) < 7 THEN Raise("ValueError")
        ELSE IF \/ IsNone(attrs[1].f) \/ IsNone(attrs[2].i) \/ IsNone(attrs[3].i)
                \/ IsNone(attrs[4].i) \/ IsNone(attrs[5].f)
        THEN Raise("ValueError")
        ELSE Ok([ video_bvid |-> bvid,
                  video_cid |-> cid,
                  content |-> IF IsNone(node.text) THEN "" ELSE Val(node.text),
                  appear_time |-> Val(attrs[1].f),
                  send_time |-> _parse_timestamp(Val(attrs[5].f)),
                  mode |-> Val(attrs[2].i),
                  font_size |-> Val(attrs[3].i),
                  font_color |-> Val(attrs[4].i),
                  author_hash |-> IF attrs[6].s = "" THEN None ELSE Some(attrs[6].s),
                  weight |-> IF Len(attrs) > 7 THEN _safe_int(attrs[8]) ELSE None,
                  pool |-> _safe_int(attrs[7]) ])

(* [from_xml_node(node) for node in danmaku_nodes]: the records, or the    *)
(* first error.                                                            *)
RECURSIVE ParseNodes(_, _, _)
ParseNodes(nodes, bvid, cid) ==
    IF nodes = <<>> THEN Ok(<<>>)
    ELSE LET head == from_xml_node(Head(nodes), bvid, cid)
             rest == ParseNodes(Tail(nodes), bvid, cid)
         IN  IF ~head.ok THEN head
             ELSE IF ~rest.ok THEN rest
             ELSE Ok(<<Val(head.value)>> \o Val(rest.value))

VideoDanmakuBundle(video, danmaku) == [video |-> video, danmaku |-> danmaku]

(* VideoDanmakuBundle.to_dict *)
to_dict(bundle) ==
    [ video |->
        [ aid |-> bundle.video.aid,
          bvid |-> bundle.video.bvid,
          cid |-> bundle.video.cid,
          title |-> bundle.video.title,
          keyword |-> bundle.video.keyword,
          duration |-> bundle.video.duration,
          publish_time |-> IF IsNone(bundle.video.publish_time) THEN None
                           ELSE Some(isoformat(Val(bundle.video.publish_time))),
          owner_name |-> bundle.video.owner_name,
          view_count |-> bundle.video.view_count,
          danmaku_count |-> bundle.video.danmaku_count,
          like_count |-> bundle.video.like_count,
          ranking_index |-> bundle.video.ranking_index ],
      danmaku |->
        [ i \in 1..Len(bundle.danmaku) |->
            LET record == bundle.danmaku[i]
            IN  [ video_bvid |-> record.video_bvid,
                  video_cid |-> record.video_cid,
                  content |-> record.content,
                  appear_time |-> record.appear_time,
                  send_time |-> isoformat(record.send_time),
                  mode |-> record.mode,
                  font_size |-> record.font_size,
                  font_color |-> record.font_color,
                  author_hash |-> record.author_hash,
                  weight |-> record.weight,
                  pool |-> record.pool ] ] ]

(* VideoDanmakuBundle.from_dict *)
from_dict(payload) ==
    LET video == payload.video
    IN  VideoDanmakuBundle(
          [ aid |-> video.aid,
            bvid |-> video.bvid,
            cid |-> video.cid,
            title |-> video.title,
            keyword |-> video.keyword,
            duration |-> video.duration,
            publish_time |-> IF IsNone(video.publish_time) THEN None
                             ELSE Some(fromisoformat(Val(video.publish_time))),
            owner_name |-> video.owner_name,
            view_count |-> video.view_count,
            danmaku_count |-> video.danmaku_count,
            like_count |-> video.like_count,
            ranking_index |-> video.ranking_index ],
          [ i \in 1..Len(payload.danmaku) |->
              LET item == payload.danmaku[i]
              IN  [ video_bvid |-> item.video_bvid,
                    video_cid |-> item.video_cid,
                    content |-> item.content,
                    appear_time |-> item.appear_time,
                    send_time |-> fromisoformat(item.send_time),
                    mode |-> item.mode,
                    font_size |-> item.font_size,
                    font_color |-> item.font_color,
                    author_hash |-> item.author_hash,
                    weight |-> item.weight,
                    pool |-> item.pool ] ])

(***************************************************************************)
(* persistence.py: the raw directory holds at most one document per bvid.  *)
(***************************************************************************)
bundle_path(bvid) == bvid

exists(dir, path) == ~IsNone(dir[path])

(* A bundle without comments is not written. *)
dump_bundle_with_comments(dir, bundle) ==
    IF bundle.danmaku = <<>> THEN dir
    ELSE [dir EXCEPT ![bundle_path(bundle.video.bvid)] = Some(to_dict(bundle))]

(* dump_bundle: the directory after the write. *)
dump_bundle(dir, bundle) ==
    [dir EXCEPT ![bundle_path(bundle.video.bvid)] = Some(to_dict(bundle))]

(* load_bundle *)
load_bundle(dir, path) == from_dict(Val(dir[path]))

EmptyDir == [b \in Bvids |-> None]

(* A bundle a run with keywords ["k2"] left behind: b1, found second. *)
EarlierBundle ==
    VideoDanmakuBundle(
        Val(from_view_api(ViewData("b1"), "k2", 11, Some(2)).value),
        Val(ParseNodes(<<XmlNode(Some(GoodP), Some("hello"))>>, "b1", 11).value))

(***************************************************************************)
(* The state.                                                              *)
(***************************************************************************)
VARIABLES
    cfg,            \* the CrawlerConfig of the runs
    store,          \* raw_dir: bvid -> the persisted document, if any
    run,            \* the number of the current crawl
    phase,          \* "search", "fetch", "returned", "raised"
    kw,             \* crawl: index of the keyword being searched
    page,           \* _search_keyword: page
    results,        \* _search_keyword: results
    sattempts,      \* _request of the search in progress: attempts
    seen_bvids,     \* crawl: seen_bvids
    ranking_index,  \* crawl: ranking_index
    surfaced,       \* log: every search result crawl has iterated over
    tasks,          \* crawl: tasks, each with the state of its unit
    permits,        \* the value of self._semaphore
    completed,      \* as_completed: units finished and not yet awaited
    collected,      \* crawl: how many units the loop has awaited
    bundles,        \* crawl: bundles
    crawl_exc,      \* the exception crawl raised, "" if none
    writers,        \* log: bvid -> the units that wrote its file this run
    prev,           \* log: what the previous run returned
    searched,       \* log: the search pages requested, and those that came back empty
    req,            \* one call of _request: its position, attempts and waits
    input,          \* the arguments of a call of models.py or persistence.py
    output          \* what that call returned

vars == << cfg, store, run, phase, kw, page, results, sattempts, seen_bvids,
           ranking_index, surfaced, tasks, permits, completed, collected, bundles,
           crawl_exc, writers, prev, searched, req, input, output >>

searchVars == << kw, page, results, sattempts, seen_bvids, ranking_index, surfaced,
                 searched >>

callVars == << req, input, output >>

(* asyncio.Semaphore(max(1, concurrent_requests)) *)
SemaphoreSize(c) == Max(1, c.concurrent_requests)

(* The share is not raised to 1. *)
PerKeywordShareNoFloor(max_videos, keywords) == max_videos \div Max(1, Len(keywords))

(* per_keyword = max(1, max_videos // max(1, len(keywords))) *)
PerKeywordShare(max_videos, keywords) == Max(1, max_videos \div Max(1, Len(keywords)))

(* Every keyword may take the whole quota. *)
PerKeywordWholeQuota(c) == Max(1, c.max_videos)

PerKeyword(c) == PerKeywordShare(c.max_videos, Keywords)

NoResult == [kind |-> "pending", bundle |-> None, exc |-> "", cached |-> FALSE]
NoFailure == [stage |-> "", kind |-> ""]

(* The coroutine _bounded_collect_video_bundle(result, keyword, ranking_index). *)
NewTask(bvid, keyword, rank) ==
    [ bvid |-> bvid, keyword |-> keyword, ranking_index |-> rank,
      pc |-> "pending", attempts |-> 0, meta |-> None, gets |-> {},
      failure |-> NoFailure, result |-> NoResult, finished |-> 0 ]

NoSearches == [pages |-> {}, empty |-> {}]

(* No call of _request is followed step by step. *)
NoRequest ==
    [ pc |-> "idle", attempts |-> 0, gets |-> 0, paced |-> 0, pacing |-> <<>>,
      backoff |-> <<>>, failures |-> <<>>, exc |-> "" ]

(* No run came before. *)
NoPrev == [returned |-> FALSE, bundles |-> {}, failed |-> {}]

RunInit ==
    /\ phase = "search"
    /\ kw = 1
    /\ page = 1
    /\ results = <<>>
    /\ sattempts = 0
    /\ seen_bvids = {}
    /\ ranking_index = 0
    /\ surfaced = <<>>
    /\ tasks = <<>>
    /\ permits = SemaphoreSize(cfg)
    /\ completed = <<>>
    /\ collected = 0
    /\ bundles = <<>>
    /\ crawl_exc = ""
    /\ writers = [b \in Bvids |-> {}]
    /\ searched = NoSearches

Init ==
    /\ cfg \in Configs
    /\ store \in {EmptyDir, dump_bundle(EmptyDir, EarlierBundle)}
    /\ run = 1
    /\ prev = NoPrev
    /\ RunInit
    /\ req = NoRequest
    /\ input = None
    /\ output = None

(***************************************************************************)
(* _request: the retry loop.  An attempt that fails is the last one when   *)
(* attempts, once incremented, reaches retry_attempts.                     *)
(***************************************************************************)
(* One attempt more is made before giving up. *)
LastAttemptOneMore(attempts) == attempts >= cfg.retry_attempts

(* A limit of 0 or less is taken for no limit. *)
LastAttemptPositiveLimit(attempts) ==
    cfg.retry_attempts > 0 /\ attempts + 1 >= cfg.retry_attempts

LastAttempt(attempts) == attempts + 1 >= cfg.retry_attempts

Failures == {"http", "transport"}

(***************************************************************************)
(* crawl, lines 50-63: the search results of one keyword.                  *)
(***************************************************************************)
(* seen_bvids is not consulted. *)
IsNewNoDedup(bvid, seen) == bvid # ""

(* An item without a bvid is not skipped. *)
IsNewNoIdCheck(bvid, seen) == bvid \notin seen

(* Line 52: not (not bvid or bvid in seen_bvids). *)
IsNew(bvid, seen) == bvid # "" /\ bvid \notin seen

RECURSIVE Discover(_, _, _)
Discover(st, search_results, keyword) ==
    IF search_results = <<>> THEN st
    ELSE LET bvid == Head(search_results)
         IN  IF ~IsNew(bvid, st.seen)
             THEN Discover(st, Tail(search_results), keyword)
             ELSE Discover([ seen |-> st.seen \cup {bvid},
                             rank |-> st.rank + 1,
                             tasks |-> Append(st.tasks, NewTask(bvid, keyword, st.rank + 1)) ],
                           Tail(search_results), keyword)

(* _search_keyword, lines 106-109: the items of one page. *)
RECURSIVE AppendItems(_, _, _)
AppendItems(res, items, per_keyword) ==
    IF items = <<>> THEN res
    ELSE LET r == Append(res, Head(items))
         IN  IF Len(r) >= per_keyword \/ Len(r) >= cfg.max_videos
             THEN r
             ELSE AppendItems(r, Tail(items), per_keyword)

(* _search_keyword, lines 111-112 *)
PageCeilingHit(p) ==
    /\ ~IsNone(cfg.pages_per_keyword)
    /\ Val(cfg.pages_per_keyword) # 0
    /\ p > Val(cfg.pages_per_keyword)

Prefix(s, n) == SubSeq(s, 1, IF Len(s) < n THEN Len(s) ELSE n)

(* _search_keyword returned res: crawl takes results[:per_keyword], then   *)
(* searches the next keyword or starts the units.                          *)
KeywordDone(res) ==
    LET search_results == Prefix(res, PerKeyword(cfg))
        st == Discover([seen |-> seen_bvids, rank |-> ranking_index, tasks |-> tasks],
                       search_results, Keywords[kw])
    IN  /\ surfaced' = surfaced \o [i \in 1..Len(search_results) |->
                                       [keyword |-> Keywords[kw], bvid |-> search_results[i]]]
        /\ seen_bvids' = st.seen
        /\ ranking_index' = st.rank
        /\ tasks' = st.tasks
        /\ results' = <<>>
        /\ page' = 1
        /\ sattempts' = 0
        /\ IF kw < Len(Keywords)
           THEN kw' = kw + 1 /\ phase' = "search"
           ELSE kw' = kw /\ phase' = "fetch"

(* The last failure is logged and swallowed. *)
SearchRaiseSwallowed(kind) == UNCHANGED << phase, crawl_exc >>

(* _request, line 216: the last failure is raised, and nothing between    *)
(* _request and the caller of crawl catches it.                            *)
SearchRaise(kind) == phase' = "raised" /\ crawl_exc' = kind

(* The GET of the current page is logged. *)
Requested(empty) ==
    [ pages |-> searched.pages \cup {<<Keywords[kw], page>>},
      empty |-> IF empty THEN searched.empty \cup {<<Keywords[kw], page>>}
                ELSE searched.empty ]

(* One GET of the search endpoint fails. *)
SearchFail ==
    /\ phase = "search"
    /\ sattempts' = sattempts + 1
    /\ searched' = Requested(FALSE)
    /\ \E kind \in Failures :
         IF LastAttempt(sattempts)
         THEN SearchRaise(kind)
         ELSE UNCHANGED << phase, crawl_exc >>
    /\ UNCHANGED << callVars, cfg, store, run, kw, page, results, seen_bvids, ranking_index,
                    surfaced, tasks, permits, completed, collected, bundles,
                    writers, prev >>

(* An empty page is taken for a page like any other. *)
EmptyPageIgnored(items) == FALSE

(* Line 104: if not items. *)
EmptyPage(items) == items = <<>>

(* One GET of the search endpoint answers with the page. *)
SearchPageOk ==
    /\ phase = "search"
    /\ searched' = Requested(SearchPage(Keywords[kw], page) = <<>>)
    /\ LET items == SearchPage(Keywords[kw], page)
           res == AppendItems(results, items, PerKeyword(cfg))
       IN  IF EmptyPage(items)
           THEN KeywordDone(results)
           ELSE IF PageCeilingHit(page + 1) \/ Len(res) >= PerKeyword(cfg)
           THEN KeywordDone(res)
           ELSE /\ results' = res
                /\ page' = page + 1
                /\ sattempts' = 0
                /\ UNCHANGED << phase, kw, seen_bvids, ranking_index, surfaced, tasks >>
    /\ UNCHANGED << callVars, cfg, store, run, permits, completed, collected, bundles,
                    crawl_exc, writers, prev >>

(***************************************************************************)
(* The per-video units: _bounded_collect_video_bundle.                     *)
(***************************************************************************)
Units == 1..Len(tasks)

(* A coroutine runs from the moment it is created. *)
UnitsScheduledOnCreation == phase \in {"search", "fetch"}

(* tasks.append only creates the coroutine objects; as_completed(tasks),   *)
(* reached after the loop over the keywords, is what schedules them.       *)
UnitsScheduled == phase = "fetch"

InFlight == {u \in Units : tasks[u].pc \in {"view", "dm"}}

BundleResult(b, cached) == [kind |-> "bundle", bundle |-> Some(b), exc |-> "", cached |-> cached]
NoneResult == [kind |-> "none", bundle |-> None, exc |-> "", cached |-> FALSE]
ExcResult(e) == [kind |-> "exc", bundle |-> None, exc |-> e, cached |-> FALSE]

(* log: how many units have finished; a unit is stamped with its turn. *)
DoneCount == Cardinality({v \in Units : tasks[v].pc = "done"})

(* The finished unit is handed to the loop before those already waiting. *)
FinishJumpsQueue(u, res, fail, got) ==
    /\ tasks' = [tasks EXCEPT ![u].pc = "done", ![u].attempts = 0,
                              ![u].result = res, ![u].failure = fail,
                              ![u].gets = tasks[u].gets \cup got,
                              ![u].finished = DoneCount + 1]
    /\ permits' = permits + 1
    /\ completed' = <<u>> \o completed

(* The unit leaves "async with self._semaphore" with a result or an        *)
(* exception: the permit goes back and the future completes.               *)
Finish(u, res, fail, got) ==
    /\ tasks' = [tasks EXCEPT ![u].pc = "done", ![u].attempts = 0,
                              ![u].result = res, ![u].failure = fail,
                              ![u].gets = tasks[u].gets \cup got,
                              ![u].finished = DoneCount + 1]
    /\ permits' = permits + 1
    /\ completed' = Append(completed, u)

(* The semaphore is never consulted. *)
SemaphoreIgnored == TRUE

(* async with self._semaphore: the unit enters when a permit is free. *)
SemaphoreFree == permits > 0

(* The cache is never consulted. *)
CacheNeverHit(bvid) == FALSE

(* enable_cache is not consulted. *)
CacheHitWhateverFlag(bvid) == exists(store, bundle_path(bvid))

(* _collect_video_bundle, lines 129-132 *)
CacheHit(bvid) == cfg.enable_cache /\ exists(store, bundle_path(bvid))

(* The unit takes a permit and runs to its first request; a cache hit      *)
(* returns without any. *)
Acquire(u) ==
    /\ UnitsScheduled
    /\ tasks[u].pc = "pending"
    /\ SemaphoreFree
    /\ IF tasks[u].bvid = ""
       THEN /\ tasks' = [tasks EXCEPT ![u].pc = "done", ![u].result = NoneResult,
                                      ![u].finished = DoneCount + 1]
            /\ completed' = Append(completed, u)
            /\ permits' = permits
       ELSE IF CacheHit(tasks[u].bvid)
       THEN /\ tasks' = [tasks EXCEPT
                           ![u].pc = "done",
                           ![u].finished = DoneCount + 1,
                           ![u].result = BundleResult(
                               load_bundle(store, bundle_path(tasks[u].bvid)), TRUE)]
            /\ completed' = Append(completed, u)
            /\ permits' = permits
       ELSE /\ tasks' = [tasks EXCEPT ![u].pc = "view", ![u].attempts = 0]
            /\ permits' = permits - 1
            /\ completed' = completed
    /\ UNCHANGED << callVars, cfg, store, run, phase, searchVars, collected, bundles,
                    crawl_exc, writers, prev >>

(* The except clause around the info lookup, lines 141-143. *)
ViewFailureResult(kind) == IF kind = "http" THEN NoneResult ELSE ExcResult(kind)

(* One GET of the video-info endpoint fails. *)
ViewFail(u) ==
    /\ phase = "fetch"
    /\ tasks[u].pc = "view"
    /\ \E kind \in Failures :
         IF LastAttempt(tasks[u].attempts)
         THEN Finish(u, ViewFailureResult(kind), [stage |-> "view", kind |-> kind], {"view"})
         ELSE /\ tasks' = [tasks EXCEPT ![u].attempts = tasks[u].attempts + 1,
                                        ![u].gets = tasks[u].gets \cup {"view"}]
              /\ UNCHANGED << permits, completed >>
    /\ UNCHANGED << callVars, cfg, store, run, phase, searchVars, collected, bundles,
                    crawl_exc, writers, prev >>

(* One GET of the video-info endpoint answers: lines 144-156. *)
ViewOk(u) ==
    /\ phase = "fetch"
    /\ tasks[u].pc = "view"
    /\ \E view_payload \in ViewPayloads(tasks[u].bvid) :
         LET data == view_payload.data
             made == IF IsNone(data) \/ IsNone(Val(data).cid) THEN Raise("")
                     ELSE from_view_api(Val(data), tasks[u].keyword, Val(Val(data).cid),
                                        Some(tasks[u].ranking_index))
         IN  IF IsNone(data) \/ IsNone(Val(data).cid)
             THEN Finish(u, NoneResult, NoFailure, {"view"})
             ELSE IF ~made.ok
             THEN Finish(u, ExcResult(made.exc), [stage |-> "view", kind |-> made.exc], {"view"})
             ELSE /\ tasks' = [tasks EXCEPT ![u].pc = "dm", ![u].attempts = 0,
                                            ![u].meta = made.value,
                                            ![u].gets = tasks[u].gets \cup {"view"}]
                  /\ UNCHANGED << permits, completed >>
    /\ UNCHANGED << callVars, cfg, store, run, phase, searchVars, collected, bundles,
                    crawl_exc, writers, prev >>

(* Lines 175-178: the bundle is built, persisted when caching, returned. *)
Deliver(u, danmaku_records, fail) ==
    LET bundle == VideoDanmakuBundle(Val(tasks[u].meta), danmaku_records)
    IN  /\ Finish(u, BundleResult(bundle, FALSE), fail, {"dm"})
        /\ IF cfg.enable_cache
           THEN /\ store' = dump_bundle(store, bundle)
                /\ writers' = [writers EXCEPT ![bundle_path(bundle.video.bvid)] = @ \cup {u}]
           ELSE UNCHANGED << store, writers >>

(* The except clause around the comment fetch, lines 162-169: TRUE when    *)
(* the failure is turned into an empty node list.                          *)
DanmakuFailureTolerated(kind) == kind = "http"

(* One GET of the comment-list endpoint fails. *)
DmFail(u) ==
    /\ phase = "fetch"
    /\ tasks[u].pc = "dm"
    /\ \E kind \in Failures :
         IF LastAttempt(tasks[u].attempts)
         THEN IF DanmakuFailureTolerated(kind)
              THEN Deliver(u, <<>>, [stage |-> "dm", kind |-> kind])
              ELSE /\ Finish(u, ExcResult(kind), [stage |-> "dm", kind |-> kind], {"dm"})
                   /\ UNCHANGED << store, writers >>
         ELSE /\ tasks' = [tasks EXCEPT ![u].attempts = tasks[u].attempts + 1,
                                        ![u].gets = tasks[u].gets \cup {"dm"}]
              /\ UNCHANGED << permits, completed, store, writers >>
    /\ UNCHANGED << callVars, cfg, run, phase, searchVars, collected, bundles, crawl_exc, prev >>

(* One GET of the comment-list endpoint answers: _fetch_danmaku lines      *)
(* 191-193, then lines 170-178.                                            *)
DmOk(u) ==
    /\ phase = "fetch"
    /\ tasks[u].pc = "dm"
    /\ \E body \in DmPayloads :
         LET meta == Val(tasks[u].meta)
             parsed == ParseNodes(body.nodes, meta.bvid, meta.cid)
         IN  IF ~body.xml
             THEN /\ Finish(u, ExcResult("ParseError"),
                            [stage |-> "dm", kind |-> "ParseError"], {"dm"})
                  /\ UNCHANGED << store, writers >>
             ELSE IF ~parsed.ok
             THEN /\ Finish(u, ExcResult(parsed.exc),
                            [stage |-> "record", kind |-> parsed.exc], {"dm"})
                  /\ UNCHANGED << store, writers >>
             ELSE Deliver(u, Val(parsed.value), NoFailure)
    /\ UNCHANGED << callVars, cfg, run, phase, searchVars, collected, bundles, crawl_exc, prev >>

(***************************************************************************)
(* crawl, lines 65-70: the loop over as_completed(tasks).                  *)
(***************************************************************************)
(* asyncio.run cancels what is left when crawl raises. *)
Cancelled(t) == IF t.pc = "done" THEN t ELSE [t EXCEPT !.pc = "cancelled"]

Collect ==
    /\ phase = "fetch"
    /\ completed # <<>>
    /\ LET u == Head(completed)
           res == tasks[u].result
       IN  /\ completed' = Tail(completed)
           /\ collected' = collected + 1
           /\ IF res.kind = "exc"
              THEN /\ phase' = "raised"
                   /\ crawl_exc' = res.exc
                   /\ tasks' = [v \in Units |-> Cancelled(tasks[v])]
                   /\ permits' = SemaphoreSize(cfg)
                   /\ bundles' = bundles
              ELSE /\ bundles' = IF res.kind = "bundle"
                                 THEN Append(bundles, Val(res.bundle))
                                 ELSE bundles
                   /\ UNCHANGED << phase, crawl_exc, tasks, permits >>
    /\ UNCHANGED << callVars, cfg, store, run, searchVars, writers, prev >>

Return ==
    /\ phase = "fetch"
    /\ collected = Len(tasks)
    /\ phase' = "returned"
    /\ UNCHANGED << callVars, cfg, store, run, searchVars, tasks, permits, completed,
                    collected, bundles, crawl_exc, writers, prev >>

(* The unit persisted a bundle without comments after the comment fetch    *)
(* had failed with an HTTP status.                                         *)
EmptyAfterFailure(u) ==
    /\ cfg.enable_cache
    /\ tasks[u].pc = "done"
    /\ tasks[u].failure = [stage |-> "dm", kind |-> "http"]
    /\ tasks[u].result.kind = "bundle"

(* The command is run again: a new crawler over the same directory. *)
StartRun ==
    /\ phase \in {"returned", "raised"}
    /\ run < MaxRuns
    /\ run' = run + 1
    /\ prev' = [returned |-> phase = "returned",
                bundles |-> IF phase = "returned"
                            THEN {bundles[i] : i \in 1..Len(bundles)}
                            ELSE {},
                failed |-> prev.failed \cup
                           {tasks[u].bvid : u \in {v \in Units : EmptyAfterFailure(v)}}]
    /\ UNCHANGED << callVars, cfg, store >>
    /\ phase' = "search"
    /\ kw' = 1
    /\ page' = 1
    /\ results' = <<>>
    /\ sattempts' = 0
    /\ seen_bvids' = {}
    /\ ranking_index' = 0
    /\ surfaced' = <<>>
    /\ tasks' = <<>>
    /\ permits' = SemaphoreSize(cfg)
    /\ completed' = <<>>
    /\ collected' = 0
    /\ bundles' = <<>>
    /\ crawl_exc' = ""
    /\ writers' = [b \in Bvids |-> {}]
    /\ searched' = NoSearches

(* One crawl. *)
Next ==
    \/ SearchFail
    \/ SearchPageOk
    \/ \E u \in Units : Acquire(u)
    \/ \E u \in Units : ViewFail(u)
    \/ \E u \in Units : ViewOk(u)
    \/ \E u \in Units : DmFail(u)
    \/ \E u \in Units : DmOk(u)
    \/ Collect
    \/ Return

Spec == Init /\ [][Next]_vars

(* One crawl on an event loop that runs whatever is ready, with requests   *)
(* that all end, by an answer or by a failure.                             *)
SpecFair == Init /\ [][Next]_vars /\ WF_vars(Next)

(***************************************************************************)
(* Crawls repeated over one directory with caching enabled.                *)
(***************************************************************************)
CachingConfigs ==
    { c \in Configs : /\ c.enable_cache
                      /\ c.concurrent_requests = MaxConcurrency
                      /\ IsNone(c.pages_per_keyword) }

InitCaching == Init /\ cfg \in CachingConfigs

NextCaching ==
    \/ SearchFail
    \/ SearchPageOk
    \/ \E u \in Units : Acquire(u)
    \/ \E u \in Units : ViewFail(u)
    \/ \E u \in Units : ViewOk(u)
    \/ \E u \in Units : DmFail(u)
    \/ \E u \in Units : DmOk(u)
    \/ Collect
    \/ Return
    \/ StartRun

SpecCaching == InitCaching /\ [][NextCaching]_vars

(***************************************************************************)
(* _request, followed step by step: the pacing wait, the GET, the backoff. *)
(* Waits are in tenths of a second.                                        *)
(***************************************************************************)
SleepInterval == 4
BackoffStep == 15

crawlVars == << cfg, store, run, phase, searchVars, tasks, permits, completed,
                collected, bundles, crawl_exc, writers, prev >>

RequestConfigs ==
    [ max_videos : {1},
      pages_per_keyword : {None},
      concurrent_requests : {1},
      retry_attempts : (-1)..(MaxRetry + 1),
      enable_cache : {FALSE},
      sleep_interval : {0, SleepInterval} ]

(* Line 204: attempts = 0, nothing sent yet. *)
NewRequest == [NoRequest EXCEPT !.pc = "pace"]

(* Only the first attempt is paced. *)
PacingWaitFirstOnly(r) == IF r.attempts = 0 THEN cfg.sleep_interval ELSE 0

(* Lines 207-208: the wait before client.get, none when sleep_interval is 0. *)
PacingWait(r) == IF cfg.sleep_interval # 0 THEN cfg.sleep_interval ELSE 0

RequestPace ==
    /\ req.pc = "pace"
    /\ req' = [req EXCEPT !.pc = "get", !.paced = PacingWait(req)]
    /\ UNCHANGED << crawlVars, input, output >>

(* Lines 209-211: the GET answers 2xx and the response is returned. *)
RequestGetOk ==
    /\ req.pc = "get"
    /\ req' = [req EXCEPT !.pc = "returned", !.gets = @ + 1, !.paced = 0,
                          !.pacing = Append(@, req.paced)]
    /\ UNCHANGED << crawlVars, input, output >>

(* Lines 209-216: the GET raises, or raise_for_status does; the handler    *)
(* counts the attempt and raises it when it was the last.                  *)
RequestGetFail ==
    /\ req.pc = "get"
    /\ \E kind \in Failures :
         req' = [req EXCEPT !.gets = @ + 1, !.paced = 0,
                            !.pacing = Append(@, req.paced),
                            !.failures = Append(@, kind),
                            !.attempts = @ + 1,
                            !.pc = IF LastAttempt(req.attempts) THEN "raised" ELSE "backoff",
                            !.exc = IF LastAttempt(req.attempts) THEN kind ELSE ""]
    /\ UNCHANGED << crawlVars, input, output >>

(* Line 217: asyncio.sleep(1.5 * attempts), then the loop starts over. *)
RequestBackoff ==
    /\ req.pc = "backoff"
    /\ req' = [req EXCEPT !.pc = "pace", !.backoff = Append(@, BackoffStep * req.attempts)]
    /\ UNCHANGED << crawlVars, input, output >>

InitRequest ==
    /\ cfg \in RequestConfigs
    /\ store = EmptyDir
    /\ run = 1
    /\ prev = NoPrev
    /\ RunInit
    /\ req = NewRequest
    /\ input = None
    /\ output = None

NextRequest ==
    \/ RequestPace
    \/ RequestGetOk
    \/ RequestGetFail
    \/ RequestBackoff

SpecRequest == InitRequest /\ [][NextRequest]_vars

(* The call on an event loop that resumes it after every wait, with GETs   *)
(* and sleeps that end.                                                    *)
SpecRequestFair == InitRequest /\ [][NextRequest]_vars /\ WF_vars(NextRequest)

(***************************************************************************)
(* The search phase of crawl alone, over more quotas and page ceilings.    *)
(***************************************************************************)
SearchConfigs ==
    [ max_videos : 0..MaxVideos,
      pages_per_keyword : {None} \cup {Some(p) : p \in 0..(MaxPagesPerKeyword + 1)},
      concurrent_requests : {1},
      retry_attempts : 1..MaxRetry,
      enable_cache : {TRUE} ]

InitSearch ==
    /\ cfg \in SearchConfigs
    /\ store = EmptyDir
    /\ run = 1
    /\ prev = NoPrev
    /\ RunInit
    /\ req = NoRequest
    /\ input = None
    /\ output = None

NextSearch ==
    \/ SearchFail
    \/ SearchPageOk

SpecSearch == InitSearch /\ [][NextSearch]_vars

(***************************************************************************)
(* models.py and persistence.py called on their own: a bundle is saved and *)
(* loaded back, a <d> node is parsed.                                      *)
(***************************************************************************)
DefaultConfig ==
    [ max_videos |-> MaxVideos,
      pages_per_keyword |-> None,
      concurrent_requests |-> MaxConcurrency,
      retry_attempts |-> MaxRetry,
      enable_cache |-> TRUE ]

(* Comment lists: none, and the records of a document of two comments. *)
SampleDanmaku(bvid, cid) ==
    { <<>>,
      Val(ParseNodes(<<XmlNode(Some(GoodP), Some("hello")), XmlNode(Some(AnonP), None)>>,
                     bvid, cid).value) }

(* Bundles built from the three info payloads, with and without a rank. *)
SampleBundles ==
    { VideoDanmakuBundle(
          Val(from_view_api(ViewData(b), "k1", Val(ViewData(b).cid), r).value), d) :
        b \in Bvids, r \in {None, Some(1)},
        d \in UNION {SampleDanmaku(c, Val(ViewData(c).cid)) : c \in Bvids} }

(* <d> nodes: no p attribute, an empty one, and the first n fields of the  *)
(* two sample payloads, with and without text.                             *)
SampleNodes ==
    { XmlNode(p, text) :
        p \in {None, Some(<<Field("", None, None)>>)}
              \cup {Some(SubSeq(GoodP, 1, n)) : n \in 1..Len(GoodP)}
              \cup {Some(SubSeq(AnonP, 1, n)) : n \in 1..Len(AnonP)},
        text \in {None, Some("hello")} }

NoOutput == [loaded |-> None, parsed |-> None]

(* dump_bundle(bundle, paths) *)
DumpBundle ==
    /\ ~exists(store, bundle_path(input.bundle.video.bvid))
    /\ store' = dump_bundle(store, input.bundle)
    /\ UNCHANGED << cfg, run, phase, searchVars, tasks, permits, completed, collected,
                    bundles, crawl_exc, writers, prev, req, input, output >>

(* load_bundle(bundle_path(raw_dir, bvid)) *)
LoadBundle ==
    /\ exists(store, bundle_path(input.bundle.video.bvid))
    /\ IsNone(output.loaded)
    /\ output' = [output EXCEPT
                    !.loaded = Some(load_bundle(store, bundle_path(input.bundle.video.bvid)))]
    /\ UNCHANGED << crawlVars, req, input >>

(* DanmakuRecord.from_xml_node(node=node, bvid=..., cid=...) *)
ParseNode ==
    /\ IsNone(output.parsed)
    /\ output' = [output EXCEPT
                    !.parsed = Some(from_xml_node(input.node, input.bundle.video.bvid,
                                                  input.bundle.video.cid))]
    /\ UNCHANGED << crawlVars, req, input >>

InitModels ==
    /\ cfg = DefaultConfig
    /\ store = EmptyDir
    /\ run = 1
    /\ prev = NoPrev
    /\ RunInit
    /\ req = NoRequest
    /\ input \in [bundle : SampleBundles, node : SampleNodes]
    /\ output = NoOutput

NextModels ==
    \/ DumpBundle
    \/ LoadBundle
    \/ ParseNode

SpecModels == InitModels /\ [][NextModels]_vars

(***************************************************************************)
(* analysis.py, visualization.py and the commands of cli.py that load the  *)
(* bundles, aggregate them and render the word cloud.                      *)
(***************************************************************************)
(* The comment texts of the samples; "haha" stands for a default stop      *)
(* word, "!!" for a text without a word character.                         *)
Texts == {"good", " good ", "nice", "haha", "  ", "!!"}

(* str.strip *)
strip(text) ==
    CASE text = " good " -> "good"
      [] text = "  " -> ""
      [] OTHER -> text

(* The stripped texts in the order of Python's string comparison. *)
TextOrder == <<"", "!!", "good", "haha", "nice">>

Pos(text) == CHOOSE i \in 1..Len(TextOrder) : TextOrder[i] = text

DEFAULT_STOPWORDS == {"", "haha"}

(* _tokenize, a one-word text being one token with or without jieba. *)
_tokenize(content) == IF content = "" THEN <<>> ELSE <<content>>

(* _clean_token *)
_clean_token(raw) == IF raw = "!!" THEN "" ELSE raw

(* A comment of a video with the given text, sent at second t. *)
Comment(bvid, cid, text, t) ==
    [ Val(from_xml_node(XmlNode(Some(GoodP), Some(text)), bvid, cid).value)
        EXCEPT !.send_time = _parse_timestamp(10 * t) ]

SampleComments(bvid, cid) ==
    { <<>>,
      << Comment(bvid, cid, "  ", 1) >>,
      << Comment(bvid, cid, "haha", 1), Comment(bvid, cid, "!!", 2) >>,
      << Comment(bvid, cid, "nice", 3), Comment(bvid, cid, " good ", 2),
         Comment(bvid, cid, "good", 4) >>,
      << Comment(bvid, cid, "good", 2), Comment(bvid, cid, "nice", 1) >> }

(* The bundles of one video, under either keyword. *)
SampleBundlesOf(bvid) ==
    LET cid == Val(ViewData(bvid).cid)
    IN  { VideoDanmakuBundle(Val(from_view_api(ViewData(bvid), k, cid, Some(1)).value), d) :
            k \in {Keywords[i] : i \in 1..Len(Keywords)}, d \in SampleComments(bvid, cid) }

(* What load_all or crawl hands to the command: no bundle, b1, or b1, b2. *)
Corpora ==
    {<<>>} \cup {<<a>> : a \in SampleBundlesOf("b1")}
           \cup {<<a, b>> : a \in SampleBundlesOf("b1"), b \in SampleBundlesOf("b2")}

(* The rows build_dataframe makes of one bundle. *)
Rows(bundle) ==
    [ i \in 1..Len(bundle.danmaku) |->
        [ video_bvid |-> bundle.video.bvid,
          keyword |-> bundle.video.keyword,
          content |-> strip(bundle.danmaku[i].content),
          send_time |-> [bundle.danmaku[i].send_time EXCEPT !.tz = "naive"] ] ]

RECURSIVE build_dataframe(_)
build_dataframe(bs) ==
    IF bs = <<>> THEN <<>> ELSE Rows(Head(bs)) \o build_dataframe(Tail(bs))

(* The order of datetimes: tenths of a second since the epoch. *)
Stamp(dt) == (dt.date * SecondsPerDay + dt.time) * 10 + dt.frac

SetMin(S) == CHOOSE x \in S : \A y \in S : x <= y

(* sort_values(["count", "first_seen"], ascending=[False, True]) on the    *)
(* groups, which groupby left in the order of their keys.                  *)
Before(a, b) ==
    \/ a.count > b.count
    \/ a.count = b.count /\ a.first_seen < b.first_seen
    \/ a.count = b.count /\ a.first_seen = b.first_seen /\ Pos(a.content) < Pos(b.content)

RECURSIVE SortRows(_)
SortRows(S) ==
    IF S = {} THEN <<>>
    ELSE LET first == CHOOSE a \in S : \A b \in S \ {a} : Before(a, b)
         IN  <<first>> \o SortRows(S \ {first})

(* DataFrame.head(n): the first n rows, all but the last -n when n < 0. *)
head(rows, n) ==
    IF n >= 0
    THEN SubSeq(rows, 1, IF n < Len(rows) THEN n ELSE Len(rows))
    ELSE SubSeq(rows, 1, Max(0, Len(rows) + n))

(* compute_top_contents *)
compute_top_contents(df, top_n) ==
    LET cleaned == SelectSeq(df, LAMBDA r : strip(r.content) # "")
        group(c) == {i \in 1..Len(cleaned) : strip(cleaned[i].content) = c}
        aggregated ==
            { [ content |-> c,
                count |-> Cardinality(group(c)),
                first_seen |-> SetMin({Stamp(cleaned[i].send_time) : i \in group(c)}) ] :
              c \in {strip(cleaned[i].content) : i \in 1..Len(cleaned)} }
        top == head(SortRows(aggregated), top_n)
    IN  IF df = <<>> \/ cleaned = <<>> THEN <<>>
        ELSE [i \in 1..Len(top) |-> [content |-> top[i].content, count |-> top[i].count]]

(* Each keyword is counted once, however many comments it has. *)
KeywordCountOnce(df, k) == 1

(* groupby("keyword").size() *)
KeywordCount(df, k) == Cardinality({i \in 1..Len(df) : df[i].keyword = k})

(* compute_keyword_distribution: the rows in an order sort_values may      *)
(* give, which is unspecified between equal counts.                        *)
compute_keyword_distribution(df) ==
    LET rows == { [keyword |-> k, count |-> KeywordCount(df, k)] :
                  k \in {df[i].keyword : i \in 1..Len(df)} }
    IN  { q \in [1..Cardinality(rows) -> rows] :
            /\ \A i, j \in 1..Cardinality(rows) : i # j => q[i] # q[j]
            /\ \A i, j \in 1..Cardinality(rows) : i < j => q[i].count >= q[j].count }

(* generate_wordcloud, lines 85-93: the tokens kept. *)
RECURSIVE Tokens(_)
Tokens(df) ==
    IF df = <<>> THEN <<>>
    ELSE LET raw == _tokenize(strip(Head(df).content))
             kept == SelectSeq([i \in 1..Len(raw) |-> _clean_token(raw[i])],
                               LAMBDA token : token # "" /\ token \notin DEFAULT_STOPWORDS)
         IN  kept \o Tokens(Tail(df))

(* generate_wordcloud *)
generate_wordcloud(bs) ==
    IF build_dataframe(bs) = <<>> THEN Raise("ValueError")
    ELSE IF Tokens(build_dataframe(bs)) = <<>> THEN Raise("ValueError")
    ELSE Ok("danmaku_wordcloud.png")

Commands == {"analyze", "visualize", "pipeline"}

NoCommand ==
    [ pc |-> "start", bundles |-> <<>>, stats |-> None, messages |-> <<>>,
      exit |-> None, exc |-> "" ]

(* load_all (analyze, visualize) or crawl returning (pipeline), and the    *)
(* test "if not bundles".                                                  *)
CliLoad ==
    /\ output.pc = "start"
    /\ output' = IF input.corpus = <<>>
                 THEN [output EXCEPT !.pc = "exited", !.exit = Some(1),
                                     !.messages = Append(@, "no bundles")]
                 ELSE [output EXCEPT !.pc = "loaded", !.bundles = input.corpus]
    /\ UNCHANGED << crawlVars, req, input >>

(* compute_statistics, export_to_excel and the message. *)
CliAnalyze ==
    /\ output.pc = "loaded"
    /\ input.command \in {"analyze", "pipeline"}
    /\ \E keyword_counts \in compute_keyword_distribution(build_dataframe(output.bundles)) :
         output' = [output EXCEPT
                      !.stats = Some([ dataframe |-> build_dataframe(output.bundles),
                                       top_contents |-> compute_top_contents(
                                           build_dataframe(output.bundles), input.top_n),
                                       keyword_counts |-> keyword_counts ]),
                      !.messages = Append(@, "statistics exported"),
                      !.pc = IF input.command = "analyze" THEN "done" ELSE "analyzed",
                      !.exit = IF input.command = "analyze" THEN Some(0) ELSE None]
    /\ UNCHANGED << crawlVars, req, input >>

(* generate_wordcloud as visualize calls it, and as pipeline does inside   *)
(* try ... except ValueError.                                              *)
CliVisualize ==
    /\ \/ input.command = "visualize" /\ output.pc = "loaded"
       \/ input.command = "pipeline" /\ output.pc = "analyzed"
    /\ LET made == generate_wordcloud(output.bundles)
       IN  output' =
             IF made.ok
             THEN [output EXCEPT !.pc = "done", !.exit = Some(0),
                                 !.messages = Append(@, "word cloud generated")]
             ELSE IF input.command = "pipeline"
             THEN [output EXCEPT !.pc = "done", !.exit = Some(0),
                                 !.messages = Append(@, "word cloud failed")]
             ELSE [output EXCEPT !.pc = "crashed", !.exc = made.exc]
    /\ UNCHANGED << crawlVars, req, input >>

InitCli ==
    /\ cfg = DefaultConfig
    /\ store = EmptyDir
    /\ run = 1
    /\ prev = NoPrev
    /\ RunInit
    /\ req = NoRequest
    /\ input \in [command : Commands, corpus : Corpora, top_n : (-1)..MaxTopN]
    /\ output = NoCommand

NextCli ==
    \/ CliLoad
    \/ CliAnalyze
    \/ CliVisualize

SpecCli == InitCli /\ [][NextCli]_vars

(***************************************************************************)
(* The properties.                                                         *)
(***************************************************************************)
ShapeErrors == {"ValueError", "KeyError"}

Started(u) == tasks[u].pc \notin {"pending", "cancelled"}

SurfacedIds == {surfaced[i].bvid : i \in 1..Len(surfaced)} \ {""}

SurfacedBy(b) == {surfaced[i].keyword : i \in {j \in 1..Len(surfaced) : surfaced[j].bvid = b}}

FirstPos(b) ==
    CHOOSE i \in 1..Len(surfaced) :
        surfaced[i].bvid = b /\ \A j \in 1..(i - 1) : surfaced[j].bvid # b

BundlesOf(b) == {i \in 1..Len(bundles) : bundles[i].video.bvid = b}

(* C1, as stated: the number of units in flight never exceeds the          *)
(* configured concurrent_requests.                                         *)
C1_InFlightWithinConfigured == Cardinality(InFlight) <= cfg.concurrent_requests

(* C1, amended: the number of units in flight (holding the semaphore)      *)
(* never exceeds max(1, concurrent_requests), however many units are       *)
(* scheduled.                                                              *)
C1_InFlightWithinSemaphore == Cardinality(InFlight) <= Max(1, cfg.concurrent_requests)

(* The limit is reached while another unit waits for a permit. *)
C1_Witness ==
    /\ cfg.concurrent_requests >= 2
    /\ Cardinality(InFlight) = cfg.concurrent_requests
    /\ \E u \in Units : tasks[u].pc = "pending"

(* C2: a unit whose info lookup or comment fetch failed on every attempt   *)
(* (transport error, timeout or non-2xx status) neither aborts crawl nor   *)
(* gets a sibling cancelled.                                               *)
C2_FetchFailureIsolated ==
    \A u \in Units :
        (tasks[u].pc = "done" /\ tasks[u].failure.stage \in {"view", "dm"}
                              /\ tasks[u].failure.kind \in Failures)
        => /\ ~(phase = "raised" /\ crawl_exc \in Failures)
           /\ \A v \in Units : tasks[v].pc # "cancelled"

(* C3: a unit whose info lookup succeeded and whose comment fetch failed   *)
(* totally (every attempt failed, or the payload is no XML) ends with a    *)
(* bundle whose comment list is empty.                                     *)
C3_DanmakuFailureGivesEmptyBundle ==
    \A u \in Units :
        (tasks[u].pc = "done" /\ tasks[u].failure.stage = "dm")
        => /\ tasks[u].result.kind = "bundle"
           /\ Val(tasks[u].result.bundle).danmaku = <<>>

(* C4: a payload-shape error in one unit (a comment with fewer than 7      *)
(* fields, an info payload without aid or bvid) ends that unit only: crawl *)
(* does not raise it and no other unit is cancelled.                       *)
C4_ShapeErrorIsolated ==
    \A u \in Units :
        (tasks[u].pc = "done" /\ tasks[u].failure.kind \in ShapeErrors)
        => /\ ~(phase = "raised" /\ crawl_exc \in ShapeErrors)
           /\ \A v \in Units : tasks[v].pc # "cancelled"

(* The search request in progress has failed on every attempt. *)
SearchExhausted == sattempts >= Max(1, cfg.retry_attempts)

(* C5: once a search request has failed on every attempt, crawl has raised *)
(* that failure: no list is returned, nothing found for earlier keywords   *)
(* is collected, and no unit has started.                                  *)
C5_SearchFailureAbortsCrawl ==
    SearchExhausted =>
        /\ phase = "raised"
        /\ crawl_exc \in Failures
        /\ bundles = <<>>
        /\ collected = 0
        /\ \A u \in Units : tasks[u].pc = "pending" /\ tasks[u].gets = {}

(* The search of the second keyword fails after a retry, with a unit       *)
(* already created for the first keyword.                                  *)
C5_Witness ==
    /\ SearchExhausted
    /\ cfg.retry_attempts = 2
    /\ kw = 2
    /\ tasks # <<>>
    /\ phase = "raised"

C7_CacheShortCircuit ==
    \A u \in Units :
        ( /\ cfg.enable_cache
          /\ exists(store, bundle_path(tasks[u].bvid))
          /\ writers[tasks[u].bvid] = {}
          /\ Started(u) )
        => /\ tasks[u].pc = "done"
           /\ tasks[u].gets = {}
           /\ tasks[u].result.kind = "bundle"
           /\ to_dict(Val(tasks[u].result.bundle)) = Val(store[bundle_path(tasks[u].bvid)])

(* crawl returned a bundle that a unit took from the cache. *)
C7_Witness ==
    /\ phase = "returned"
    /\ \E u \in Units :
         /\ tasks[u].result.cached
         /\ tasks[u].gets = {}
         /\ BundlesOf(tasks[u].bvid) # {}

PrevIds == {b.video.bvid : b \in prev.bundles}

(* C8: in a run that follows a run with caching enabled, the unit of a     *)
(* video whose bundle the previous run returned, once started, has         *)
(* finished without an info or comment request, with a bundle equal to the *)
(* one the previous run returned.                                          *)
C8_SecondRunServedFromCache ==
    \A u \in Units :
        (run > 1 /\ tasks[u].bvid \in PrevIds /\ Started(u))
        => /\ tasks[u].pc = "done"
           /\ tasks[u].gets = {}
           /\ tasks[u].result.kind = "bundle"
           /\ Val(tasks[u].result.bundle) \in prev.bundles

(* The second run returned, from the cache, a bundle with comments that    *)
(* the first run fetched.                                                  *)
C8_Witness ==
    /\ run = 2
    /\ phase = "returned"
    /\ \E i \in 1..Len(bundles) :
         /\ bundles[i] \in prev.bundles
         /\ bundles[i].video.bvid = "b2"
         /\ Len(bundles[i].danmaku) = 2

C10_RanksFollowDiscovery ==
    /\ ranking_index = Cardinality(SurfacedIds)
    /\ Len(tasks) = Cardinality(SurfacedIds)
    /\ \A u \in Units : tasks[u].bvid \in SurfacedIds /\ tasks[u].ranking_index <= ranking_index
    /\ \A u, v \in Units :
         u < v => /\ tasks[u].ranking_index < tasks[v].ranking_index
                  /\ FirstPos(tasks[u].bvid) < FirstPos(tasks[v].bvid)

(* Two ids have ranks, and an item without id and a duplicate were passed  *)
(* over. *)
C10_Witness ==
    /\ Len(tasks) >= 2
    /\ \E i \in 1..Len(surfaced) : surfaced[i].bvid = ""
    /\ \E i, j \in 1..Len(surfaced) : i < j /\ surfaced[i].bvid = surfaced[j].bvid
                                            /\ surfaced[i].bvid # ""

(* C11: every bundle of the returned list carries the rank this run gave   *)
(* to its short id at discovery, fetched or cached alike, so no two        *)
(* bundles of the list share a rank.                                       *)
C11_ReturnedRankIsThisRuns ==
    phase = "returned" =>
        /\ \A i \in 1..Len(bundles) :
             \E u \in Units :
                /\ tasks[u].bvid = bundles[i].video.bvid
                /\ bundles[i].video.ranking_index = Some(tasks[u].ranking_index)
        /\ \A i, j \in 1..Len(bundles) :
             i # j => bundles[i].video.ranking_index # bundles[j].video.ranking_index

RECURSIVE SumSeq(_)
SumSeq(q) == IF q = <<>> THEN 0 ELSE Head(q) + SumSeq(Tail(q))

(* C12: with an attempt ceiling N >= 1, a request never makes more than N  *)
(* GETs; once N attempts have failed, by transport error or status alike,  *)
(* it has raised the failure of the last attempt after exactly N GETs,     *)
(* having waited 1.5*k seconds after the k-th failure for each k < N       *)
(* (4.5 seconds in all for N = 3).                                         *)
C12_RetryExhaustion ==
    LET N == cfg.retry_attempts
    IN  N >= 1 =>
          /\ req.gets <= N
          /\ Len(req.failures) >= N => req.pc = "raised"
          /\ req.pc = "raised" =>
               /\ req.gets = N
               /\ Len(req.failures) = N
               /\ req.exc = req.failures[N]
               /\ req.backoff = [k \in 1..(N - 1) |-> BackoffStep * k]
               /\ N = 3 => SumSeq(req.backoff) = 45

(* Three attempts failed, not all in the same way, and the request raised  *)
(* after 4.5 seconds of backoff. *)
C12_Witness ==
    /\ req.pc = "raised"
    /\ cfg.retry_attempts = 3
    /\ req.failures = <<"transport", "http", "transport">>
    /\ SumSeq(req.backoff) = 45

(* C13: every GET of a request, the first and each retry, comes right      *)
(* after a pacing wait of the configured sleep_interval: a GET about to be *)
(* sent has been paced, and so was every GET sent.                         *)
C13_PacedBeforeEveryGet ==
    /\ req.pc = "get" => req.paced = cfg.sleep_interval
    /\ Len(req.pacing) = req.gets
    /\ \A i \in 1..Len(req.pacing) : req.pacing[i] = cfg.sleep_interval

(* A retry has been sent, after its backoff and a pacing wait. *)
C13_Witness ==
    /\ cfg.sleep_interval > 0
    /\ req.gets >= 2
    /\ req.backoff # <<>>
    /\ req.pacing[2] = cfg.sleep_interval

(* The unit whose bundle is at position i of the list. *)
UnitOf(i) == CHOOSE u \in Units : tasks[u].bvid = bundles[i].video.bvid

(* C14: the list is in completion order: of two bundles in it, the one     *)
(* whose unit finished first comes first, whatever their ranks; and the    *)
(* returned list holds the bundle of every unit that produced one.         *)
C14_CompletionOrder ==
    /\ \A i \in 1..Len(bundles) :
         /\ tasks[UnitOf(i)].pc = "done"
         /\ tasks[UnitOf(i)].result = BundleResult(bundles[i], tasks[UnitOf(i)].result.cached)
    /\ \A i, j \in 1..Len(bundles) :
         i < j => tasks[UnitOf(i)].finished < tasks[UnitOf(j)].finished
    /\ phase = "returned" =>
         Len(bundles) = Cardinality({u \in Units : tasks[u].result.kind = "bundle"})

(* crawl returned two fetched bundles, the one found later first. *)
C14_Witness ==
    /\ phase = "returned"
    /\ \E i, j \in 1..Len(bundles) :
         /\ i < j
         /\ tasks[UnitOf(i)].ranking_index > tasks[UnitOf(j)].ranking_index
         /\ tasks[UnitOf(i)].finished < tasks[UnitOf(j)].finished
         /\ ~tasks[UnitOf(i)].result.cached
         /\ ~tasks[UnitOf(j)].result.cached

(* What _search_keyword returned for keyword k, as crawl iterated over it. *)
SurfacedOf(k) ==
    LET hits == SelectSeq(surfaced, LAMBDA e : e.keyword = k)
    IN  [i \in 1..Len(hits) |-> hits[i].bvid]

PagesOf(k) == {e[2] : e \in {x \in searched.pages : x[1] = k}}

(* The items of pages 1..p of keyword k. *)
RECURSIVE Gathered(_, _)
Gathered(k, p) == IF p = 0 THEN <<>> ELSE Gathered(k, p - 1) \o SearchPage(k, p)

(* C15: the share is max(1, quota div number of keywords): it is at least  *)
(* 1, and when the quota is at least the number n of keywords it is the    *)
(* s with s*n <= quota < (s+1)*n, for the configured keywords and for      *)
(* lists of 1 to 3 keywords; the search of a keyword never holds or        *)
(* returns more results than the share.                                    *)
C15_PerKeywordShare ==
    /\ \A n \in 1..(Len(Keywords) + 1) :
         LET keywords == [i \in 1..n |-> "k"]
             share == IF n = Len(Keywords) THEN PerKeyword(cfg)
                      ELSE PerKeywordShare(cfg.max_videos, keywords)
         IN  /\ share >= 1
             /\ cfg.max_videos < n => share = 1
             /\ cfg.max_videos >= n =>
                  share * n <= cfg.max_videos /\ cfg.max_videos < (share + 1) * n
    /\ Len(results) <= PerKeyword(cfg)
    /\ \A i \in 1..Len(Keywords) : Len(SurfacedOf(Keywords[i])) <= PerKeyword(cfg)

(* With a quota of 5 and two keywords both searches returned 2 results,    *)
(* the first one having dropped nothing, the second stopped by the share.  *)
C15_Witness ==
    /\ cfg.max_videos = 5
    /\ phase = "fetch"
    /\ PerKeyword(cfg) = 2
    /\ Len(SurfacedOf("k1")) = 2
    /\ Len(SurfacedOf("k2")) = 2
    /\ PagesOf("k2") = {1, 2}

(* C16: once a search page of a keyword has come back empty, no later page *)
(* of that keyword is ever requested, the search of the keyword is over,   *)
(* and it returned what the pages before had given, short of the share.    *)
C16_EmptyPageStopsPaging ==
    \A e \in searched.empty :
        LET k == e[1]
            p == e[2]
        IN  /\ \A q \in PagesOf(k) : q <= p
            /\ phase = "search" => Keywords[kw] # k
            /\ phase # "raised" =>
                 /\ SurfacedOf(k) = Gathered(k, p - 1)
                 /\ Len(SurfacedOf(k)) < PerKeyword(cfg)

(* The second page of k1 came back empty with 2 of 3 results gathered, and *)
(* the search went on with k2. *)
C16_Witness ==
    /\ <<"k1", 2>> \in searched.empty
    /\ PerKeyword(cfg) = 3
    /\ Len(SurfacedOf("k1")) = 2
    /\ <<"k2", 1>> \in searched.pages

(* C17: the pages of a keyword are requested in order from 1; with a page  *)
(* ceiling P configured no page beyond P is requested, whatever P; and a   *)
(* page is requested only while the results are short of the share.        *)
C17_PagesInOrderWithinCeiling ==
    /\ \A i \in 1..Len(Keywords) :
         PagesOf(Keywords[i]) = 1..Cardinality(PagesOf(Keywords[i]))
    /\ ~IsNone(cfg.pages_per_keyword) =>
         \A i \in 1..Len(Keywords) :
            Cardinality(PagesOf(Keywords[i])) <= Val(cfg.pages_per_keyword)
    /\ phase = "search" => Len(results) < PerKeyword(cfg)

(* C18: with caching disabled no step of a run changes the persisted       *)
(* bundles or writes a file, and no unit takes its bundle from a file: a   *)
(* unit that delivers a bundle has requested the info and the comments.    *)
C18_CacheDisabledLeavesStore ==
    [][ ~cfg.enable_cache =>
          /\ store' = store
          /\ writers' = writers
          /\ \A u \in 1..Len(tasks') :
               /\ ~tasks'[u].result.cached
               /\ tasks'[u].result.kind = "bundle" => tasks'[u].gets = {"view", "dm"} ]_vars

(* With caching disabled and a bundle of b1 on disk, crawl returned a      *)
(* bundle of b1 that it fetched, and the file is as it was. *)
C18_Witness ==
    /\ ~cfg.enable_cache
    /\ store = dump_bundle(EmptyDir, EarlierBundle)
    /\ phase = "returned"
    /\ \E i \in 1..Len(bundles) :
         /\ bundles[i].video.bvid = "b1"
         /\ bundles[i] # EarlierBundle
         /\ tasks[UnitOf(i)].gets = {"view", "dm"}

(* The optional fields of a bundle's metadata, rank included, are absent. *)
AllAbsent(video) ==
    /\ IsNone(video.duration) /\ IsNone(video.publish_time) /\ IsNone(video.owner_name)
    /\ IsNone(video.view_count) /\ IsNone(video.danmaku_count) /\ IsNone(video.like_count)
    /\ IsNone(video.ranking_index)

(* C19: a bundle saved with dump_bundle and loaded from the written file   *)
(* with load_bundle equals the original field for field, absent optional   *)
(* fields and an empty comment list included; and from_dict(to_dict(b)) is *)
(* b.                                                                      *)
C19_DumpLoadRoundTrip ==
    /\ from_dict(to_dict(input.bundle)) = input.bundle
    /\ ~IsNone(output.loaded) =>
         /\ exists(store, bundle_path(input.bundle.video.bvid))
         /\ Val(output.loaded) = input.bundle
         /\ Val(output.loaded).video.publish_time = input.bundle.video.publish_time
         /\ \A i \in 1..Len(input.bundle.danmaku) :
              Val(output.loaded).danmaku[i].send_time = input.bundle.danmaku[i].send_time

(* A bundle without any optional field and without comments came back     *)
(* from the file.                                                          *)
C19_Witness ==
    /\ ~IsNone(output.loaded)
    /\ AllAbsent(input.bundle.video)
    /\ AllAbsent(Val(output.loaded).video)
    /\ Val(output.loaded).danmaku = <<>>

(* The node has no p attribute, or one of fewer than 7 fields. *)
ShortPayload(node) == IsNone(node.p) \/ Len(Val(node.p)) < 7

(* C20: parsing a <d> node whose p attribute is missing, empty or shorter  *)
(* than 7 fields fails with ValueError and returns nothing, no partly      *)
(* filled record; a payload of 7 fields or more that reads well gives a    *)
(* record.                                                                 *)
C20_ShortPayloadRejected ==
    /\ ShortPayload(input.node) =>
         from_xml_node(input.node, "b1", 11) = Raise("ValueError")
    /\ ~IsNone(output.parsed) =>
         IF ShortPayload(input.node)
         THEN /\ ~Val(output.parsed).ok
              /\ Val(output.parsed).exc = "ValueError"
              /\ IsNone(Val(output.parsed).value)
         ELSE Val(output.parsed).ok

(* A payload of 6 fields was refused. *)
C20_Witness ==
    /\ ~IsNone(output.parsed)
    /\ ~IsNone(input.node.p)
    /\ Len(Val(input.node.p)) = 6
    /\ ~Val(output.parsed).ok

(* The comment records of the bundles, in order. *)
RECURSIVE Records(_)
Records(bs) == IF bs = <<>> THEN <<>> ELSE Head(bs).danmaku \o Records(Tail(bs))

(* No comment record, or none that leaves a token after cleaning and the   *)
(* removal of stop words.                                                  *)
EmptyCorpus(bs) ==
    \A i \in 1..Len(Records(bs)) :
        LET text == strip(Records(bs)[i].content)
        IN  text = "" \/ text = "!!" \/ text \in DEFAULT_STOPWORDS

Finished == output.pc \in {"done", "exited", "crashed"}

(* C21: a command that visualizes (visualize, pipeline) and is given a     *)
(* corpus without records or without usable tokens never ends with an      *)
(* unhandled exception, and ends with a message to the operator about it.  *)
C21_EmptyCorpusReported ==
    (input.command \in {"visualize", "pipeline"} /\ EmptyCorpus(input.corpus)) =>
        /\ output.pc # "crashed"
        /\ output.exc = ""
        /\ Finished =>
             \E i \in 1..Len(output.messages) :
                 output.messages[i] \in {"no bundles", "word cloud failed"}

(* The records whose stripped text is the given one. *)
RecordsWith(text) ==
    {i \in 1..Len(Records(input.corpus)) : strip(Records(input.corpus)[i].content) = text}

(* The earliest send time of a text. *)
FirstSent(text) ==
    SetMin({Stamp(Records(input.corpus)[i].send_time) : i \in RecordsWith(text)})

(* C22: top_contents has at most top_n rows, each of another non-blank     *)
(* stripped text of the records with the number of records of that text as *)
(* its count; rows are in descending order of count, equal counts in order *)
(* of the earliest send time, and no text left out ranks before a row.     *)
C22_TopContents ==
    ~IsNone(output.stats) =>
        LET top == Val(output.stats).top_contents
            texts == {strip(Records(input.corpus)[i].content) :
                        i \in 1..Len(Records(input.corpus))} \ {""}
            Ranks(a, b) ==
                \/ Cardinality(RecordsWith(a)) > Cardinality(RecordsWith(b))
                \/ /\ Cardinality(RecordsWith(a)) = Cardinality(RecordsWith(b))
                   /\ FirstSent(a) <= FirstSent(b)
        IN  /\ Len(top) <= input.top_n
            /\ \A i \in 1..Len(top) :
                 /\ top[i].content \in texts
                 /\ top[i].count = Cardinality(RecordsWith(top[i].content))
            /\ \A i, j \in 1..Len(top) :
                 i < j => top[i].content # top[j].content /\ Ranks(top[i].content, top[j].content)
            /\ \A text \in texts \ {top[i].content : i \in 1..Len(top)} :
                 /\ Len(top) = input.top_n
                 /\ \A i \in 1..Len(top) : Ranks(top[i].content, text)

(* The keywords of the bundles. *)
KeywordsOf(bs) == {bs[i].video.keyword : i \in 1..Len(bs)}

(* The number of comment records in the bundles of a keyword. *)
RecordsOfKeyword(bs, k) ==
    SumSeq([i \in 1..Len(bs) |-> IF bs[i].video.keyword = k THEN Len(bs[i].danmaku) ELSE 0])

(* keyword_counts is in descending order of count and gives each of the    *)
(* keywords one row, with the number of its comment records.               *)
KeywordRows(keywords) ==
    LET rows == Val(output.stats).keyword_counts
    IN  /\ {rows[i].keyword : i \in 1..Len(rows)} = keywords
        /\ Len(rows) = Cardinality(keywords)
        /\ \A i \in 1..Len(rows) :
             rows[i].count = RecordsOfKeyword(input.corpus, rows[i].keyword)
        /\ \A i, j \in 1..Len(rows) : i < j => rows[i].count >= rows[j].count
        /\ Cardinality(KeywordsOf(input.corpus)) = 1 /\ Len(rows) = 1 =>
             rows[1].count = Len(Records(input.corpus))

(* C23 as stated: keyword_counts has one row per keyword of the bundles,   *)
(* in descending order of count, the count being the number of comment     *)
(* records in the bundles of the keyword.                                  *)
C23_OneRowPerKeyword ==
    ~IsNone(output.stats) => KeywordRows(KeywordsOf(input.corpus))

(* C23: keyword_counts has one row per keyword that has a comment record   *)
(* in its bundles, in descending order of count, the count being the       *)
(* number of comment records, blank ones included, in the bundles of the   *)
(* keyword; a keyword without any comment record has no row.               *)
C23_OneRowPerKeywordWithRecords ==
    ~IsNone(output.stats) =>
        KeywordRows({k \in KeywordsOf(input.corpus) : RecordsOfKeyword(input.corpus, k) > 0})

(* Two keywords, one with three records and one with two, were counted. *)
C23_Witness ==
    /\ ~IsNone(output.stats)
    /\ Len(Val(output.stats).keyword_counts) = 2
    /\ Val(output.stats).keyword_counts[1].count = 3
    /\ Val(output.stats).keyword_counts[2].count = 2

(* The position of a keyword in the configured list. *)
KeywordIndex(k) == CHOOSE i \in 1..Len(Keywords) : Keywords[i] = k

(* No unit has taken a step: none holds a permit, has sent a request, has  *)
(* a result or has written a file, and nothing is collected.               *)
NoUnitStarted ==
    /\ \A u \in Units :
         /\ tasks[u].pc \in {"pending", "cancelled"}
         /\ tasks[u].gets = {}
         /\ tasks[u].result = NoResult
    /\ permits = SemaphoreSize(cfg)
    /\ completed = <<>>
    /\ collected = 0
    /\ bundles = <<>>
    /\ \A b \in Bvids : writers[b] = {}

(* C24: the searches run one keyword at a time in the configured order,    *)
(* and while a search is going on or has failed for good no unit has taken *)
(* a step: units start only once the search of the last keyword has        *)
(* finished, and a search failure leaves the directory as it was found.    *)
C24_SearchPrecedesFetch ==
    /\ \A e \in searched.pages : KeywordIndex(e[1]) <= kw
    /\ \A i \in 1..kw : i < kw => \E e \in searched.pages : e[1] = Keywords[i]
    /\ \A i, j \in 1..Len(surfaced) :
         i < j => KeywordIndex(surfaced[i].keyword) <= KeywordIndex(surfaced[j].keyword)
    /\ (phase = "search" \/ SearchExhausted) =>
         /\ NoUnitStarted
         /\ store \in {EmptyDir, dump_bundle(EmptyDir, EarlierBundle)}
    /\ SearchExhausted => phase = "raised"
    /\ (\E u \in Units : Started(u)) =>
         /\ kw = Len(Keywords)
         /\ phase \in {"fetch", "returned", "raised"}
         /\ ~SearchExhausted
         /\ \A i \in 1..Len(Keywords) : \E e \in searched.pages : e[1] = Keywords[i]

(* A unit is under way and another waits, both keywords having been       *)
(* searched.                                                               *)
C24_Witness ==
    /\ phase = "fetch"
    /\ \E u \in Units : tasks[u].pc = "view"
    /\ \E u \in Units : tasks[u].pc = "pending"
    /\ \A i \in 1..Len(Keywords) : \E e \in searched.pages : e[1] = Keywords[i]

(* C25: free permits plus units in flight always make up                   *)
(* max(1, concurrent_requests), whichever way units end; with fair         *)
(* scheduling and requests that end, every unit scheduled by the fetch     *)
(* phase eventually takes a permit and finishes, and crawl ends.           *)
C25_PermitsConservedAndUnitsFinish ==
    /\ [](permits + Cardinality(InFlight) = SemaphoreSize(cfg))
    /\ \A u \in 1..Cardinality(Bvids) :
         [](u \in Units /\ phase = "fetch" => <>(u \in Units /\ tasks[u].pc = "done"))
    /\ <>(phase \in {"returned", "raised"})

(* C26: whatever retry_attempts is, 0 and negative values included, a call *)
(* of _request sends at least one GET and at most max(1, retry_attempts);  *)
(* the first GET that succeeds is returned, every GET before it having     *)
(* failed and been followed by one backoff, and nothing happens after it;  *)
(* the call always ends, by returning or by raising.                       *)
C26_RequestAttemptsBounded ==
    /\ [](/\ req.gets <= Max(1, cfg.retry_attempts)
          /\ req.pc \in {"returned", "raised"} => req.gets >= 1
          /\ req.pc = "returned" =>
               /\ Len(req.failures) = req.gets - 1
               /\ Len(req.backoff) = req.gets - 1)
    /\ [][req.pc \notin {"returned", "raised"}]_vars
    /\ <>(req.pc \in {"returned", "raised"})

(* With a negative retry_attempts the only GET failed and was raised       *)
(* without a backoff.                                                      *)
C26_Witness ==
    /\ cfg.retry_attempts < 0
    /\ req.pc = "raised"
    /\ req.gets = 1
    /\ req.backoff = <<>>

(* The results of a keyword that got no unit: without a short id, or with  *)
(* one surfaced before.                                                    *)
Skipped(k) ==
    {i \in 1..Len(surfaced) :
        /\ surfaced[i].keyword = k
        /\ \/ surfaced[i].bvid = ""
           \/ \E j \in 1..(i - 1) : surfaced[j].bvid = surfaced[i].bvid}

(* C27: with share = max(1, max_videos div number of keywords), crawl      *)
(* never has more units than share times the number of keywords, nor more  *)
(* than max_videos when max_videos is at least the number of keywords, and *)
(* never more bundles than units; a keyword's units and its skipped        *)
(* results (duplicates, items without a short id) together are the results *)
(* its search returned, at most share: nothing is fetched in their place.  *)
C27_UnitsWithinQuota ==
    LET share == Max(1, cfg.max_videos \div Len(Keywords))
    IN  /\ Len(tasks) <= share * Len(Keywords)
        /\ cfg.max_videos >= Len(Keywords) => Len(tasks) <= cfg.max_videos
        /\ Len(bundles) <= Len(tasks)
        /\ \A n \in 1..Len(Keywords) :
             LET k == Keywords[n]
             IN  /\ Len(SurfacedOf(k)) <= share
                 /\ Cardinality({u \in Units : tasks[u].keyword = k})
                      + Cardinality(Skipped(k)) = Len(SurfacedOf(k))

(* With a quota of 4 each keyword gave 2 results and one unit, the other   *)
(* result being an item without a short id and a duplicate; the third      *)
(* page of the second keyword was not requested, and 2 bundles came back.  *)
C27_Witness ==
    /\ cfg.max_videos = 4
    /\ phase = "returned"
    /\ Len(tasks) = 2
    /\ Len(bundles) = 2
    /\ Cardinality(Skipped("k1")) = 1
    /\ Cardinality(Skipped("k2")) = 1
    /\ <<"k2", 3>> \notin searched.pages

(* C28: with caching enabled, a unit whose comment fetch failed with an    *)
(* HTTP status has written its bundle, without comments, to its file; in   *)
(* every later run with caching the unit of that short id, once started,   *)
(* has returned the bundle without comments from the file, with no request *)
(* to the info or the comment endpoint and without writing; a unit that    *)
(* returned None has written nothing and left no file.                     *)
C28_EmptyBundleCached ==
    \A u \in Units :
        /\ EmptyAfterFailure(u) =>
             /\ Val(tasks[u].result.bundle).danmaku = <<>>
             /\ writers[tasks[u].bvid] = {u}
             /\ exists(store, bundle_path(tasks[u].bvid))
             /\ Val(store[bundle_path(tasks[u].bvid)]) = to_dict(Val(tasks[u].result.bundle))
        /\ (cfg.enable_cache /\ run > 1 /\ tasks[u].bvid \in prev.failed /\ Started(u)) =>
             /\ tasks[u].pc = "done"
             /\ tasks[u].gets = {}
             /\ tasks[u].result.kind = "bundle"
             /\ tasks[u].result.cached
             /\ Val(tasks[u].result.bundle).danmaku = <<>>
             /\ writers[tasks[u].bvid] = {}
        /\ tasks[u].result = NoneResult =>
             /\ \A b \in Bvids : u \notin writers[b]
             /\ ~exists(store, bundle_path(tasks[u].bvid))

(* The second run returned, from the file, the bundle without comments     *)
(* that the first run persisted after a failed comment fetch.              *)
C28_Witness ==
    /\ run = 2
    /\ phase = "returned"
    /\ \E u \in Units :
         /\ tasks[u].bvid \in prev.failed
         /\ tasks[u].gets = {}
         /\ tasks[u].result.kind = "bundle"
         /\ Val(tasks[u].result.bundle).danmaku = <<>>
         /\ \E i \in 1..Len(bundles) : bundles[i] = Val(tasks[u].result.bundle)

====
